---- MODULE Spec2Model ----
(***************************************************************************)
(* The candle aggregator of yitech/candles (package aggregator): the      *)
(* per-key state machine that fans a subscription out to the exchange     *)
(* adapters, merges their candles per period, force-closes stale periods  *)
(* and rebroadcasts the merged candles to the downstream handlers.        *)
(*                                                                         *)
(* Every section of code that runs under symState.mu is one atomic step;  *)
(* everything the code does outside the lock (the upstream Subscribe      *)
(* calls, each downstream handler call) is a step of its own, so the      *)
(* goroutines interleave exactly where the locks allow it.                *)
(***************************************************************************)
EXTENDS Integers, Sequences, FiniteSets, TLC

\* ------------------------------------------------------------------ bounds

\* openTimes of the periods the exchanges report are 1..MaxT
MaxT == 3
\* the periods the exchanges report while subscriptions come and go
MaxLifeT == 1
\* the periods the exchanges report while their goroutines race
MaxRaceT == 2
\* Aggregator.maxLimit, scaled down from MaxRequestLimit so that the
\* history buffer is trimmed within a run
maxLimit == 1

\* the candles in the result of one adapter's Backfill
MaxBatch == 2
\* the periods the exchanges report while handlers cancel during the fan-out
MaxFanT == 2

\* the Subscribe calls whose keys are resolved
MaxSubs == 3

\* the sessions one adapter goroutine starts
MaxSessions == 6

\* --------------------------------------------------------------- constants

\* Aggregator.adapters, in the order given to New
adapters == <<"A", "B">>
\* Aggregator.numEx
numEx == Len(adapters)
Exchanges == {adapters[i] : i \in 1..numEx}

\* the "symbol:interval" keys of Aggregator.states
Keys == {"k1", "k2"}
Times == 1..MaxT
\* the goroutines that call Aggregator.Subscribe, one call each
Callers == {1, 2, 3}
\* handler ids are the values nextID takes
Ids == 0..(Cardinality(Callers) - 1)

\* no error
Nil == "nil"

\* ------------------------------------------------------- candles and merge

\* strconv.ParseFloat on the decimal strings of the model; a string that
\* does not parse gives 0 (the error is discarded by every caller)
NumTable ==
  [s \in {"1", "2", "3", "5", "8", "9", "10", "11", "12", "-1", "2.0", "10.0"} |->
     CASE s = "1" -> 1 [] s = "2" -> 2 [] s = "3" -> 3 [] s = "5" -> 5
       [] s = "8" -> 8 [] s = "9" -> 9 [] s = "10" -> 10 [] s = "11" -> 11
       [] s = "12" -> 12 [] s = "-1" -> 0 - 1 [] s = "2.0" -> 2
       [] s = "10.0" -> 10]

ParseFloat(s) == IF s \in DOMAIN NumTable THEN NumTable[s] ELSE 0

\* strconv.FormatFloat(v, 'f', -1, 64): the minimal decimal string
FormatFloat(v) == ToString(v)

\* candle.Candle (symbol, interval and closeTime are copied like open and
\* are the same for every candle of a key; they are left out)
Candle(ex, t, o, h, l, c, v, closed) ==
  [exchange |-> ex, openTime |-> t, open |-> o, high |-> h, low |-> l,
   close |-> c, volume |-> v, isClosed |-> closed]

\* the zero value of candle.Candle
ZeroCandle == Candle("", 0, "", "", "", "", "", FALSE)

\* the first iteration of merge's loop
MergeFirst(c) ==
  [agg  |-> [c EXCEPT !.exchange = "aggregated"],
   maxH |-> ParseFloat(c.high),
   minL |-> ParseFloat(c.low),
   sumVol |-> ParseFloat(c.volume)]

\* a loop body that tracks the greatest high but keeps the first entry's
\* high string
MergeNextKeepHigh(acc, c) ==
  LET h == ParseFloat(c.high)
      l == ParseFloat(c.low)
      v == ParseFloat(c.volume)
      a2 == IF l < acc.minL THEN [acc.agg EXCEPT !.low = c.low] ELSE acc.agg
  IN [agg  |-> [a2 EXCEPT !.close = c.close],
      maxH |-> IF h > acc.maxH THEN h ELSE acc.maxH,
      minL |-> IF l < acc.minL THEN l ELSE acc.minL,
      sumVol |-> IF v > 0 THEN acc.sumVol + v ELSE acc.sumVol]

\* a later iteration of merge's loop
MergeNext(acc, c) ==
  LET h == ParseFloat(c.high)
      l == ParseFloat(c.low)
      v == ParseFloat(c.volume)
      a1 == IF h > acc.maxH THEN [acc.agg EXCEPT !.high = c.high] ELSE acc.agg
      a2 == IF l < acc.minL THEN [a1 EXCEPT !.low = c.low] ELSE a1
  IN [agg  |-> [a2 EXCEPT !.close = c.close],
      maxH |-> IF h > acc.maxH THEN h ELSE acc.maxH,
      minL |-> IF l < acc.minL THEN l ELSE acc.minL,
      sumVol |-> IF v > 0 THEN acc.sumVol + v ELSE acc.sumVol]

RECURSIVE MergeLoop(_, _, _)
MergeLoop(perEx, ord, n) ==
  IF n = 1 THEN MergeFirst(perEx[ord[1]])
  ELSE MergeNext(MergeLoop(perEx, ord, n - 1), perEx[ord[n]])

\* merge(perEx) when the map is iterated in the order ord
merge(perEx, ord) ==
  IF Len(ord) = 0
    THEN [ZeroCandle EXCEPT !.volume = FormatFloat(0)]
    ELSE LET acc == MergeLoop(perEx, ord, Len(ord))
         IN [acc.agg EXCEPT !.volume = FormatFloat(acc.sumVol),
                            !.isClosed = FALSE]

\* the orders in which Go may iterate a map with the key set S
Orders(S) ==
  {ord \in [1..Cardinality(S) -> S] : \A i, j \in 1..Cardinality(S) :
                                         i # j => ord[i] # ord[j]}

\* an appendAndResize that trims as soon as the buffer reaches 2 * limit
TrimEarly(cs, c, limit) ==
  LET nc == Append(cs, c)
  IN IF Len(nc) >= limit * 2
       THEN SubSeq(nc, Len(nc) - limit + 1, Len(nc))
       ELSE nc

\* appendAndResize(state, c, limit) on the buffer cs
appendAndResize(cs, c, limit) ==
  LET nc == Append(cs, c)
  IN IF Len(nc) > limit * 2
       THEN SubSeq(nc, Len(nc) - limit + 1, Len(nc))
       ELSE nc

\* -------------------------------------------------------------------- state

VARIABLES
  states,     \* Aggregator.states: the keys that have a symState
  setup,      \* symState.setup
  setupErr,   \* symState.setupErr
  tokens,     \* symState.tokens: the stored upstream tokens
  candles,    \* symState.candles: the rolling history
  pending,    \* symState.pending: openTime -> pendingCandle
  finalized,  \* symState.finalized
  handlers,   \* symState.handlers: the registered handler ids
  nextID,     \* symState.nextID
  live,       \* the upstream tokens that are not cancelled, per key
  sub,        \* the Aggregator.Subscribe calls (one per caller)
  prod,       \* the adapters' goroutines inside handleCandle, per key and exchange
  closer,     \* the Aggregator.Close call: the symStates still to visit, the
              \* one it is at, its position in the stored tokens, the
              \* symState locks it holds, and the Subscribe calls made
              \* before it returned
  rcv,        \* what each downstream handler has received so far
  sent,       \* the latest update each exchange has reported, per key
  closedCount, \* per key and period, the isClosed candles put into history
  last,       \* the step of handleCandle taken last
  fn          \* the call under way that works on no symState

aggVars == <<states, setup, setupErr, tokens, candles, pending, finalized,
             handlers, nextID>>
vars == <<states, setup, setupErr, tokens, candles, pending, finalized,
          handlers, nextID, live, sub, prod, closer, rcv, sent, closedCount,
          last, fn>>

\* an empty map[string]*candle.Candle
EmptyMap == [x \in {} |-> ZeroCandle]
\* an empty map[int64]*pendingCandle
EmptyPending == [x \in {} |-> [agg |-> ZeroCandle, perExchange |-> EmptyMap,
                               closedBy |-> {}]]

\* an adapter's goroutine that is not inside handleCandle; inside, it has
\* the candles of the to-publish list still to hand out, the handler
\* snapshot, the handlers still to call with the first of these candles,
\* the symState locks it holds, the length of the to-publish list and the
\* number of handler calls it has made
IdleProd == [toPublish |-> <<>>, hs |-> {}, left |-> {}, held |-> {},
             len |-> 0, n |-> 0]

\* a Subscribe call that has not been made yet; owner is the call's
\* needsSetup, and calls counts the Unsubscribe calls on the token it returns
IdleSub == [pc |-> "idle", key |-> "", id |-> 0, i |-> 1, toks |-> <<>>,
            err |-> Nil, calls |-> 0, owner |-> FALSE]

\* a handler that has received nothing: the latest period and the closed
\* periods it has received, the force-closed periods it is to receive (each
\* with the period of the candle that forced the close) and the finalized
\* periods it is to receive
NoRcv == [maxT |-> 0, gotClosed |-> {}, owedForce |-> {}, owedFin |-> {}]

\* no call that works on no symState is under way
NoCall == [op |-> "none"]

\* the state after New(adapters...): no symState exists; a symState is
\* created by getOrCreateState with empty maps
Init ==
  /\ states = {}
  /\ setup = [k \in Keys |-> FALSE]
  /\ setupErr = [k \in Keys |-> Nil]
  /\ tokens = [k \in Keys |-> <<>>]
  /\ candles = [k \in Keys |-> <<>>]
  /\ pending = [k \in Keys |-> EmptyPending]
  /\ finalized = [k \in Keys |-> {}]
  /\ handlers = [k \in Keys |-> {}]
  /\ nextID = [k \in Keys |-> 0]
  /\ live = [k \in Keys |-> {}]
  /\ sub = [c \in Callers |-> IdleSub]
  /\ prod = [k \in Keys |-> [e \in Exchanges |-> IdleProd]]
  /\ closer = [pc |-> "idle", todo |-> {}, before |-> {}, at |-> "", i |-> 1,
               held |-> {}]
  /\ rcv = [k \in Keys |-> [h \in Ids |-> NoRcv]]
  /\ sent = [k \in Keys |-> [e \in Exchanges |-> [t |-> 0, closed |-> TRUE]]]
  /\ closedCount = [k \in Keys |-> [t \in Times |-> 0]]
  /\ last = [op |-> "init"]
  /\ fn = NoCall

Range(s) == {s[i] : i \in 1..Len(s)}

\* the error an adapter's Subscribe returns
ErrOf(e) == IF e = "A" THEN "errA" ELSE "errB"

\* the upstream token the adapter e returns to the caller c
UpToken(e, c) == [ex |-> e, by |-> c]

\* ------------------------------------------------------------------- locks

\* Aggregator.mu is held: Close holds it from its first line to its return;
\* getOrCreateState holds it within one step
AggLocked == closer.pc = "closing"

\* symState.mu of the key k is held, by Close while it ranges over the
\* stored tokens or by a handleCandle invocation past its snapshot; every
\* other locked section is one step
Locked(k) ==
  \/ k \in closer.held
  \/ \E e \in Exchanges : k \in prod[k][e].held

\* ------------------------------------------------------ Aggregator.Subscribe

\* a delete that clears the whole handler map
RemoveAll(hs, id) == {}

\* a delete that removes nothing
RemoveNothing(hs, id) == hs

\* delete(state.handlers, id)
RemoveHandler(hs, id) == hs \ {id}

\* an error path that leaves the tokens obtained so far subscribed
UnsubscribeNone(lv, toks) == lv

\* startExchangeSubs, error path: every token obtained so far is unsubscribed
UnsubscribeAll(lv, toks) == lv \ Range(toks)

\* a counter that is not advanced
SameID(id) == id

\* state.nextID++
NextID(id) == id + 1

\* a Subscribe that leaves the handler out of the map
RegisterLater(hs, id) == hs

\* state.handlers[id] = handler
Register(hs, id) == hs \cup {id}

\* a Subscribe in which every caller starts the exchange subscriptions
AlwaysSetup(isSetUp) == TRUE

\* needsSetup := !state.setup
NeedsSetup(isSetUp) == ~isSetUp

\* Subscribe, first locked section: getOrCreateState, then the handler is
\* registered under a fresh id and the setup slot is claimed if it is free
SubscribeStart(c, k) ==
  /\ sub[c].pc = "idle"
  /\ \A d \in Callers : d < c => sub[d].pc # "idle"
  /\ ~AggLocked
  /\ ~Locked(k)
  /\ LET id == nextID[k]
         needsSetup == NeedsSetup(setup[k])
     IN /\ states' = states \cup {k}
        /\ nextID' = [nextID EXCEPT ![k] = NextID(id)]
        /\ handlers' = [handlers EXCEPT ![k] = Register(@, id)]
        /\ setup' = [setup EXCEPT ![k] = TRUE]
        /\ sub' = [sub EXCEPT ![c] =
                     [pc |-> IF needsSetup THEN "setup" ELSE "check",
                      key |-> k, id |-> id, i |-> 1, toks |-> <<>>,
                      err |-> Nil, calls |-> 0, owner |-> needsSetup]]
  /\ UNCHANGED <<setupErr, tokens, candles, pending, finalized, live, prod,
                 closer, rcv, sent, closedCount, last, fn>>

\* startExchangeSubs: the next adapter's Subscribe succeeds
FeedSubscribeOk(c) ==
  /\ sub[c].pc = "setup"
  /\ sub[c].i <= numEx
  /\ LET k == sub[c].key
         tok == UpToken(adapters[sub[c].i], c)
     IN /\ live' = [live EXCEPT ![k] = @ \cup {tok}]
        /\ sub' = [sub EXCEPT ![c].toks = Append(@, tok), ![c].i = @ + 1]
  /\ UNCHANGED <<aggVars, prod, closer, rcv, sent, closedCount, last, fn>>

\* startExchangeSubs: the next adapter's Subscribe fails
FeedSubscribeFail(c) ==
  /\ sub[c].pc = "setup"
  /\ sub[c].i <= numEx
  /\ LET k == sub[c].key
     IN /\ live' = [live EXCEPT ![k] = UnsubscribeAll(@, sub[c].toks)]
        /\ sub' = [sub EXCEPT ![c].pc = "failed",
                              ![c].err = ErrOf(adapters[sub[c].i])]
  /\ UNCHANGED <<aggVars, prod, closer, rcv, sent, closedCount, last, fn>>

\* an owner that stores the tokens and leaves setupErr as it is
SetupStoreKeepErr(c) ==
  /\ sub[c].pc = "setup"
  /\ sub[c].i = numEx + 1
  /\ ~Locked(sub[c].key)
  /\ tokens' = [tokens EXCEPT ![sub[c].key] = sub[c].toks]
  /\ sub' = [sub EXCEPT ![c].pc = "ok"]
  /\ UNCHANGED <<states, setup, setupErr, candles, pending, finalized,
                 handlers, nextID, live, prod, closer, rcv, sent, closedCount,
                 last, fn>>

\* Subscribe, owner, startExchangeSubs returned the tokens
SetupStore(c) ==
  /\ sub[c].pc = "setup"
  /\ sub[c].i = numEx + 1
  /\ ~Locked(sub[c].key)
  /\ LET k == sub[c].key
     IN /\ tokens' = [tokens EXCEPT ![k] = sub[c].toks]
        /\ setupErr' = [setupErr EXCEPT ![k] = Nil]
        /\ sub' = [sub EXCEPT ![c].pc = "ok"]
  /\ UNCHANGED <<states, setup, candles, pending, finalized, handlers, nextID,
                 live, prod, closer, rcv, sent, closedCount, last, fn>>

\* Subscribe, owner, startExchangeSubs returned an error
SetupFail(c) ==
  /\ sub[c].pc = "failed"
  /\ ~Locked(sub[c].key)
  /\ LET k == sub[c].key
     IN /\ setup' = [setup EXCEPT ![k] = FALSE]
        /\ handlers' = [handlers EXCEPT ![k] = RemoveHandler(@, sub[c].id)]
        /\ setupErr' = [setupErr EXCEPT ![k] = sub[c].err]
        /\ sub' = [sub EXCEPT ![c].pc = "err"]
  /\ UNCHANGED <<states, tokens, candles, pending, finalized, nextID, live,
                 prod, closer, rcv, sent, closedCount, last, fn>>

\* Subscribe, not the owner: setupErr is read under the lock
CheckSetup(c) ==
  /\ sub[c].pc = "check"
  /\ ~Locked(sub[c].key)
  /\ LET k == sub[c].key
         err == setupErr[k]
     IN /\ sub' = [sub EXCEPT ![c].pc = IF err # Nil THEN "remove" ELSE "ok",
                              ![c].err = err]
  /\ UNCHANGED <<aggVars, live, prod, closer, rcv, sent, closedCount, last, fn>>

\* Subscribe, not the owner, setupErr was set: the handler is removed
CheckFail(c) ==
  /\ sub[c].pc = "remove"
  /\ ~Locked(sub[c].key)
  /\ LET k == sub[c].key
     IN /\ handlers' = [handlers EXCEPT ![k] = RemoveHandler(@, sub[c].id)]
        /\ sub' = [sub EXCEPT ![c].pc = "err"]
  /\ UNCHANGED <<states, setup, setupErr, tokens, candles, pending, finalized,
                 nextID, live, prod, closer, rcv, sent, closedCount, last, fn>>

\* an Unsubscribe that tears the upstream subscriptions down with the last
\* handler of the key
UnsubscribeTearDown(c) ==
  /\ sub[c].pc = "ok"
  /\ sub[c].calls = 0
  /\ ~Locked(sub[c].key)
  /\ LET k == sub[c].key
         hs == RemoveHandler(handlers[k], sub[c].id)
     IN /\ handlers' = [handlers EXCEPT ![k] = hs]
        /\ live' = [live EXCEPT ![k] = IF hs = {} THEN @ \ Range(tokens[k])
                                                 ELSE @]
        /\ tokens' = [tokens EXCEPT ![k] = IF hs = {} THEN <<>> ELSE @]
        /\ sub' = [sub EXCEPT ![c].calls = 1]
  /\ UNCHANGED <<states, setup, setupErr, candles, pending, finalized, nextID,
                 prod, closer, rcv, sent, closedCount, last, fn>>

\* aggregatorToken.Unsubscribe, the first call on the token a Subscribe call
\* returned
Unsubscribe(c) ==
  /\ sub[c].pc = "ok"
  /\ sub[c].calls = 0
  /\ ~Locked(sub[c].key)
  /\ LET k == sub[c].key
     IN /\ handlers' = [handlers EXCEPT ![k] = RemoveHandler(@, sub[c].id)]
        /\ sub' = [sub EXCEPT ![c].calls = 1]
  /\ UNCHANGED <<states, setup, setupErr, tokens, candles, pending, finalized,
                 nextID, live, prod, closer, rcv, sent, closedCount, last, fn>>

\* aggregatorToken.Unsubscribe, the second call on the same token
UnsubscribeAgain(c) ==
  /\ sub[c].pc = "ok"
  /\ sub[c].calls = 1
  /\ ~Locked(sub[c].key)
  /\ LET k == sub[c].key
     IN /\ handlers' = [handlers EXCEPT ![k] = RemoveHandler(@, sub[c].id)]
        /\ sub' = [sub EXCEPT ![c].calls = 2]
  /\ UNCHANGED <<states, setup, setupErr, tokens, candles, pending, finalized,
                 nextID, live, prod, closer, rcv, sent, closedCount, last, fn>>

\* ---------------------------------------------------------- Aggregator.Close

\* Close takes Aggregator.mu and starts to range over Aggregator.states
CloseStart ==
  /\ closer.pc = "idle"
  /\ closer' = [closer EXCEPT !.pc = "closing", !.todo = states]
  /\ UNCHANGED <<aggVars, live, sub, prod, rcv, sent, closedCount, last, fn>>

\* an unlock that is deferred to the return of Close
ReleaseAtReturn(held, k) == held

\* state.mu.Unlock() at the end of the loop body
Release(held, k) == held \ {k}

\* Close, the next symState of the range: state.mu.Lock()
CloseLock(k) ==
  /\ closer.pc = "closing"
  /\ closer.at = ""
  /\ k \in closer.todo
  /\ ~Locked(k)
  /\ closer' = [closer EXCEPT !.at = k, !.i = 1, !.held = @ \cup {k}]
  /\ UNCHANGED <<aggVars, live, sub, prod, rcv, sent, closedCount, last, fn>>

\* Close, under state.mu: tok.Unsubscribe() for the next stored token
CloseUnsubscribe(k) ==
  /\ closer.at = k
  /\ closer.i <= Len(tokens[k])
  /\ live' = [live EXCEPT ![k] = @ \ {tokens[k][closer.i]}]
  /\ closer' = [closer EXCEPT !.i = @ + 1]
  /\ UNCHANGED <<aggVars, sub, prod, rcv, sent, closedCount, last, fn>>

\* Close, after the loop over the tokens: state.tokens = nil and
\* state.mu.Unlock()
CloseUnlock(k) ==
  /\ closer.at = k
  /\ closer.i = Len(tokens[k]) + 1
  /\ tokens' = [tokens EXCEPT ![k] = <<>>]
  /\ closer' = [closer EXCEPT !.at = "", !.i = 1, !.todo = @ \ {k},
                              !.held = Release(@, k)]
  /\ UNCHANGED <<states, setup, setupErr, candles, pending, finalized, handlers,
                 nextID, live, sub, prod, rcv, sent, closedCount, last, fn>>

\* Close returns and releases Aggregator.mu
CloseEnd ==
  /\ closer.pc = "closing"
  /\ closer.at = ""
  /\ closer.todo = {}
  /\ closer' = [closer EXCEPT !.pc = "closed", !.held = {},
                              !.before = {c \in Callers : sub[c].pc # "idle"}]
  /\ UNCHANGED <<aggVars, live, sub, prod, rcv, sent, closedCount, last, fn>>

\* ------------------------------------------------------------- handleCandle

\* a handleCandle without the late-arrival check
NeverLate(fin, openTime) == FALSE

\* step 1: the candle's period is already finalized
IsLate(fin, openTime) == openTime \in fin

\* a force-close that takes the incoming candle's own period as stale too
StaleOrCurrent(pend, openTime) == {t \in DOMAIN pend : t <= openTime}

\* a handleCandle that force-closes nothing
NoStalePeriods(pend, openTime) == {}

\* step 2: the pending periods older than the incoming one
StalePeriods(pend, openTime) == {t \in DOMAIN pend : t < openTime}

\* a force-close that appends the pending candles as they are
ForcedAsIs(pend, fo) == [i \in 1..Len(fo) |-> pend[fo[i]].agg]

\* step 2: the force-closed candles, in the order fo the map is ranged in
ForceClosed(pend, fo) ==
  [i \in 1..Len(fo) |-> [pend[fo[i]].agg EXCEPT !.isClosed = TRUE]]

\* step 2: delete(state.pending, t) for every force-closed period
Remaining(pend, fo) == [t \in (DOMAIN pend) \ Range(fo) |-> pend[t]]

\* appendAndResize for each candle of cl in turn
RECURSIVE AppendEach(_, _, _)
AppendEach(cs, cl, limit) ==
  IF cl = <<>> THEN cs
  ELSE AppendEach(appendAndResize(cs, Head(cl), limit), Tail(cl), limit)

\* step 3: the pending entry for openTime, created if missing
GetOrCreatePending(pend, openTime) ==
  IF openTime \in DOMAIN pend THEN pend[openTime]
  ELSE [agg |-> ZeroCandle, perExchange |-> EmptyMap, closedBy |-> {}]

\* a step 4 that leaves the candle out of perExchange
StoreNothing(perEx, c) == perEx

\* step 4: p.perExchange[c.Exchange] = &cp
StoreCandle(perEx, c) ==
  [x \in (DOMAIN perEx) \cup {c.exchange} |->
     IF x = c.exchange THEN c ELSE perEx[x]]

\* step 4: the exchange is added to closedBy when the candle is closed
MarkClosed(closedBy, c) ==
  IF c.isClosed THEN closedBy \cup {c.exchange} ELSE closedBy

\* a step 4 that merges when the pending entry is created and keeps that
\* candle afterwards
MergeOnCreate(old, perEx, mo) ==
  IF old = ZeroCandle THEN merge(perEx, mo) ELSE old

\* step 4: p.agg = merge(p.perExchange), whatever p.agg was
Remerge(old, perEx, mo) == merge(perEx, mo)

\* a handleCandle that never finalizes a period on the exchanges' confirmations
NoneClosed(closedBy) == FALSE

\* a finalization on the first confirmation of the close
AnyClosed(closedBy) == closedBy # {}

\* step 5: every exchange has confirmed the close
AllClosed(closedBy) == Cardinality(closedBy) = numEx

\* a to-publish list without the force-closed candles
OnlyAgg(forced, agg) == <<agg>>

\* a to-publish list with the candle of the incoming period first
AggFirst(forced, agg) == <<agg>> \o forced

\* the candles handed to the handlers: the force-closed ones, then p.agg
ToPublish(forced, agg) == Append(forced, agg)

\* snapshotHandlers
snapshotHandlers(hs) == hs

\* a handleCandle that keeps state.mu until it returns: the locks it holds
\* in the fan-out
UnlockAtReturn(k) == {k}

\* state.mu.Unlock() after the snapshot: the locks handleCandle holds in
\* the fan-out
UnlockBeforeFanOut(k) == {}

\* the locked section of handleCandle for a candle that is not late, on
\* st = [candles, pending, finalized], with the map orders fo (state.pending)
\* and mo (perExchange, inside merge)
handleCandleLocked(st, c, fo, mo) ==
  LET openTime == c.openTime
      forced == ForceClosed(st.pending, fo)
      cs1 == AppendEach(st.candles, forced, maxLimit)
      pend1 == Remaining(st.pending, fo)
      fin1 == st.finalized \cup Range(fo)
      p0 == GetOrCreatePending(pend1, openTime)
      perEx == StoreCandle(p0.perExchange, c)
      closedBy == MarkClosed(p0.closedBy, c)
      agg == Remerge(p0.agg, perEx, mo)
      done == AllClosed(closedBy)
      agg2 == IF done THEN [agg EXCEPT !.isClosed = TRUE] ELSE agg
      p1 == [agg |-> agg2, perExchange |-> perEx, closedBy |-> closedBy]
      \* everything this invocation appends, on top of the history
      app == IF done THEN Append(forced, agg2) ELSE forced
  IN [candles |-> IF done THEN appendAndResize(cs1, agg2, maxLimit) ELSE cs1,
      grown |-> st.candles \o app,
      pending |-> IF done
                    THEN [t \in (DOMAIN pend1) \ {openTime} |-> pend1[t]]
                    ELSE [t \in (DOMAIN pend1) \cup {openTime} |->
                            IF t = openTime THEN p1 ELSE pend1[t]],
      finalized |-> IF done THEN fin1 \cup {openTime} ELSE fin1,
      toPublish |-> ToPublish(forced, agg2),
      forced |-> Range(fo),
      done |-> done]

\* the prices and volumes an exchange reports for a period: one quote while
\* the period is open and one when it closes (the exchanges agree on the
\* open and the close price, as they trade the same market)
QuoteOf(e, closed) ==
  IF e = "A"
    THEN IF closed
           THEN [open |-> "9", high |-> "12", low |-> "9", close |-> "11",
                 volume |-> "3"]
           ELSE [open |-> "9", high |-> "10", low |-> "9", close |-> "10",
                 volume |-> "2"]
    ELSE IF closed
           THEN [open |-> "9", high |-> "11", low |-> "8", close |-> "11",
                 volume |-> "5"]
           ELSE [open |-> "9", high |-> "11", low |-> "8", close |-> "10",
                 volume |-> "3"]

\* the candles the adapter of exchange e may hand to its handler
Inputs(e, times) ==
  {LET q == QuoteOf(e, cl)
   IN Candle(e, t, q.open, q.high, q.low, q.close, q.volume, cl) :
     t \in times, cl \in BOOLEAN}

\* an exchange's stream never rewinds: after the update s it reports a later
\* period, or the close of the period of s
Later(c, s) ==
  \/ c.openTime > s.t
  \/ c.openTime = s.t /\ c.isClosed /\ ~s.closed

\* the goroutine of a subscription that is not cancelled calls handleCandle:
\* the whole locked section, up to the handler snapshot
HandleCandle(k, e, c) ==
  /\ \E tok \in live[k] : tok.ex = e
  /\ prod[k][e] = IdleProd
  /\ ~Locked(k)
  /\ Later(c, sent[k][e])
  /\ sent' = [sent EXCEPT ![k][e] = [t |-> c.openTime, closed |-> c.isClosed]]
  /\ IF IsLate(finalized[k], c.openTime)
       THEN /\ last' = [op |-> "handle", k |-> k, e |-> e, t |-> c.openTime,
                        late |-> TRUE]
            /\ UNCHANGED <<aggVars, live, sub, prod, closer, rcv, closedCount, fn>>
       ELSE \E fo \in Orders(StalePeriods(pending[k], c.openTime)) :
            \E mo \in Orders(DOMAIN StoreCandle(
                        GetOrCreatePending(Remaining(pending[k], fo),
                                           c.openTime).perExchange, c)) :
              LET r == handleCandleLocked(
                         [candles |-> candles[k], pending |-> pending[k],
                          finalized |-> finalized[k]], c, fo, mo)
                  hs == snapshotHandlers(handlers[k])
              IN /\ candles' = [candles EXCEPT ![k] = r.candles]
                 /\ pending' = [pending EXCEPT ![k] = r.pending]
                 /\ finalized' = [finalized EXCEPT ![k] = r.finalized]
                 /\ prod' = [prod EXCEPT ![k][e] =
                               IF hs = {} THEN IdleProd
                               ELSE [toPublish |-> r.toPublish, hs |-> hs,
                                     left |-> hs,
                                     held |-> UnlockBeforeFanOut(k),
                                     len |-> Len(r.toPublish), n |-> 0]]
                 /\ rcv' = [rcv EXCEPT ![k] =
                              [h \in Ids |->
                                 IF h \in hs
                                   THEN [rcv[k][h] EXCEPT
                                           !.owedForce = @ \cup
                                              (r.forced \X {c.openTime}),
                                           !.owedFin = @ \cup
                                              (r.finalized \ finalized[k])]
                                   ELSE rcv[k][h]]]
                 /\ closedCount' = [closedCount EXCEPT ![k] =
                      [t \in Times |-> @[t] + Cardinality(
                         {i \in (Len(candles[k]) + 1)..Len(r.grown) :
                            r.grown[i].openTime = t /\ r.grown[i].isClosed})]]
                 /\ last' = [op |-> "handle", k |-> k, e |-> e,
                             t |-> c.openTime, late |-> FALSE]
                 /\ UNCHANGED <<states, setup, setupErr, tokens, handlers,
                                nextID, live, sub, closer, fn>>

\* the call h(&c) of the loops over toPublish and the snapshotted handlers,
\* for the first candle of the list and the handler h; cancels tells whether
\* the handler cancels its own token inside the call
Deliver(k, e, h, cancels) ==
  LET p == prod[k][e]
      c == Head(p.toPublish)
      left == p.left \ {h}
      r == rcv[k][h]
  IN /\ prod' = [prod EXCEPT ![k][e] =
                   IF left # {} THEN [p EXCEPT !.left = left, !.n = @ + 1]
                   ELSE IF Tail(p.toPublish) = <<>> THEN IdleProd
                   ELSE [p EXCEPT !.toPublish = Tail(@), !.left = p.hs,
                                  !.n = @ + 1]]
     /\ rcv' = [rcv EXCEPT ![k][h] =
                  [r EXCEPT
                     !.maxT = IF c.openTime > @ THEN c.openTime ELSE @,
                     !.gotClosed = IF c.isClosed THEN @ \cup {c.openTime}
                                   ELSE @]]
     /\ last' = [op |-> "dispatch", closed |-> c.isClosed,
                 cancels |-> cancels,
                 \* h has received a candle of a later period before
                 back |-> c.openTime < r.maxT,
                 \* h has received a closed candle of a later period before
                 closedBack |-> \E t \in r.gotClosed : c.openTime < t,
                 \* a candle of this period has force-closed a
                 \* period, h in the snapshot, and h has not received
                 \* the closed candle of that period yet
                 missing |-> \E f \in r.owedForce :
                                /\ f[2] = c.openTime
                                /\ f[1] \notin r.gotClosed]

\* handleCandle after the snapshot: the next call h(&c), the handler
\* returning without a call into the aggregator
Dispatch(k, e) ==
  /\ prod[k][e].toPublish # <<>>
  /\ \E h \in prod[k][e].left : Deliver(k, e, h, FALSE)
  /\ UNCHANGED <<aggVars, live, sub, closer, sent, closedCount, fn>>

\* the next call h(&c), the handler calling Unsubscribe on its own token
\* before it returns: the call takes state.mu, which the handler can have
\* only once its Subscribe call has returned the token
DispatchCancelling(k, e) ==
  /\ prod[k][e].toPublish # <<>>
  /\ ~Locked(k)
  /\ \E h \in prod[k][e].left, c \in Callers :
       /\ sub[c].pc = "ok" /\ sub[c].key = k /\ sub[c].id = h
       /\ sub[c].calls = 0
       /\ Deliver(k, e, h, TRUE)
       /\ handlers' = [handlers EXCEPT ![k] = RemoveHandler(@, h)]
       /\ sub' = [sub EXCEPT ![c].calls = 1]
  /\ UNCHANGED <<states, setup, setupErr, tokens, candles, pending, finalized,
                 nextID, live, closer, sent, closedCount, fn>>

\* ------------------------------------------------------- Aggregator.Backfill

\* the historical candles the adapter of exchange e may return: up to
\* MaxBatch closed candles, in any order
Batches(e) ==
  UNION {[1..n -> {c \in Inputs(e, Times) : c.isClosed}] : n \in 0..MaxBatch}

\* groups: make(map[int64]map[string]*candle.Candle)
EmptyGroups == [t \in {} |-> EmptyMap]

\* groups[c.OpenTime][c.Exchange] = c, the inner map created if missing
PutGroup(groups, c) ==
  [t \in (DOMAIN groups) \cup {c.openTime} |->
     IF t = c.openTime
       THEN StoreCandle(IF t \in DOMAIN groups THEN groups[t] ELSE EmptyMap, c)
       ELSE groups[t]]

\* the loop over one batch
RECURSIVE GroupBatch(_, _)
GroupBatch(groups, batch) ==
  IF batch = <<>> THEN groups
  ELSE GroupBatch(PutGroup(groups, Head(batch)), Tail(batch))

\* times in the order they come out of the map: here the latest first
UnsortedTimes(S) ==
  LET RECURSIVE Desc(_)
      Desc(R) == IF R = {} THEN <<>>
                 ELSE LET m == CHOOSE x \in R : \A y \in R : y <= x
                      IN <<m>> \o Desc(R \ {m})
  IN Desc(S)

\* the keys of groups after slices.Sort(times)
SortedTimes(S) ==
  LET RECURSIVE Asc(_)
      Asc(R) == IF R = {} THEN <<>>
                ELSE LET m == CHOOSE x \in R : \A y \in R : x <= y
                     IN <<m>> \o Asc(R \ {m})
  IN Asc(S)

\* the orders in which merge may iterate each group
GroupOrders(groups) ==
  LET all == UNION {Orders(DOMAIN groups[t]) : t \in DOMAIN groups}
  IN {mo \in [DOMAIN groups -> all] :
        \A t \in DOMAIN groups : mo[t] \in Orders(DOMAIN groups[t])}

\* out: merge of each group, marked closed, in the order of times
MergeGroups(groups, times, mo) ==
  [j \in 1..Len(times) |->
     [merge(groups[times[j]], mo[times[j]]) EXCEPT !.isClosed = TRUE]]

\* the error Backfill returns when the adapter e fails
BackfillErr(e) == [msg |-> "aggregator backfill", wraps |-> ErrOf(e)]

\* Backfill is called; got keeps the batches the adapters have returned
BackfillStart ==
  /\ fn = NoCall
  /\ fn' = [op |-> "backfill", pc |-> "fetch", i |-> 1, groups |-> EmptyGroups,
            got |-> <<>>, out |-> <<>>, err |-> Nil]
  /\ UNCHANGED <<aggVars, live, sub, prod, closer, rcv, sent, closedCount,
                 last>>

\* the next adapter's Backfill returns a batch, which is put into groups
BackfillFeedOk ==
  /\ fn.op = "backfill" /\ fn.pc = "fetch" /\ fn.i <= numEx
  /\ \E batch \in Batches(adapters[fn.i]) :
       fn' = [fn EXCEPT !.groups = GroupBatch(@, batch),
                        !.got = Append(@, batch),
                        !.i = @ + 1]
  /\ UNCHANGED <<aggVars, live, sub, prod, closer, rcv, sent, closedCount,
                 last>>

\* a Backfill that returns what it has merged so far with the error
BackfillFeedFailPartial ==
  /\ fn.op = "backfill" /\ fn.pc = "fetch" /\ fn.i <= numEx
  /\ \E mo \in GroupOrders(fn.groups) :
       fn' = [fn EXCEPT !.pc = "failed",
                        !.out = MergeGroups(fn.groups,
                                            SortedTimes(DOMAIN fn.groups), mo),
                        !.err = BackfillErr(adapters[fn.i])]
  /\ UNCHANGED <<aggVars, live, sub, prod, closer, rcv, sent, closedCount,
                 last>>

\* the next adapter's Backfill fails: return nil, err
BackfillFeedFail ==
  /\ fn.op = "backfill" /\ fn.pc = "fetch" /\ fn.i <= numEx
  /\ fn' = [fn EXCEPT !.pc = "failed", !.out = <<>>,
                      !.err = BackfillErr(adapters[fn.i])]
  /\ UNCHANGED <<aggVars, live, sub, prod, closer, rcv, sent, closedCount,
                 last>>

\* every adapter has returned: the times are sorted and each group is merged
BackfillReturn ==
  /\ fn.op = "backfill" /\ fn.pc = "fetch" /\ fn.i = numEx + 1
  /\ \E mo \in GroupOrders(fn.groups) :
       fn' = [fn EXCEPT !.pc = "done",
                        !.out = MergeGroups(fn.groups,
                                            SortedTimes(DOMAIN fn.groups), mo)]
  /\ UNCHANGED <<aggVars, live, sub, prod, closer, rcv, sent, closedCount,
                 last>>

\* -------------------------------------------------------------------- merge

\* the candles of one period an exchange may have in perExchange: prices and
\* volumes as decimal strings, some in another format, a negative volume and
\* strings that do not parse
MergeInputs(e) ==
  {Candle(e, 1, o, h, l, IF e = "A" THEN "10" ELSE "11", v, FALSE) :
     o \in {"9", "10"}, h \in {"10", "10.0", "11", "x"},
     l \in {"8", "9", "x"}, v \in {"2", "3", "-1", "x"}}

\* the perExchange maps over the exchanges S
PerExMaps(S) ==
  {f \in [S -> UNION {MergeInputs(e) : e \in S}] :
     \A e \in S : f[e].exchange = e}

\* merge is called on a perExchange map, which is iterated in some order
MergeCall ==
  /\ fn = NoCall
  /\ \E S \in (SUBSET Exchanges) \ {{}} :
     \E perEx \in PerExMaps(S) :
     \E ord \in Orders(S) :
       fn' = [op |-> "merge", perEx |-> perEx, out |-> merge(perEx, ord),
             again |-> FALSE, out2 |-> ZeroCandle]
  /\ UNCHANGED <<aggVars, live, sub, prod, closer, rcv, sent, closedCount,
                 last>>

\* merge is called a second time on the same map
MergeAgain ==
  /\ fn.op = "merge"
  /\ ~fn.again
  /\ \E ord \in Orders(DOMAIN fn.perEx) :
       fn' = [fn EXCEPT !.again = TRUE, !.out2 = merge(fn.perEx, ord)]
  /\ UNCHANGED <<aggVars, live, sub, prod, closer, rcv, sent, closedCount,
                 last>>

\* ------------------------------------------------------------ key resolution

\* the symbol and interval strings the callers pass to Subscribe; no code
\* restricts them, and a ':' may occur in either
Symbols == {"BTC", "BTC:USDT", "ETH"}
Intervals == {"1m", "USDT:1m"}

\* key := symbol + ":" + interval
KeyOf(symbol, interval) == symbol \o ":" \o interval

\* no Subscribe call has resolved a key yet: Aggregator.states is empty
NoResolve == [op |-> "resolve", states |-> {}, got |-> <<>>]

\* Subscribe, up to the return of getOrCreateState: the key is built and
\* looked up in Aggregator.states, and a symState is created under the key
\* if there is none; got keeps, per call, the pair, the key and the symState
\* the call works on, a symState being known by the key it was created under
ResolveKey(symbol, interval) ==
  /\ fn.op \in {"none", "resolve"}
  /\ LET cur == IF fn.op = "none" THEN NoResolve ELSE fn
         key == KeyOf(symbol, interval)
     IN /\ Len(cur.got) < MaxSubs
        /\ fn' = [cur EXCEPT
                    !.states = @ \cup {key},
                    !.got = Append(@, [symbol |-> symbol, interval |-> interval,
                                       key |-> key, state |-> key,
                                       created |-> key \notin cur.states])]
  /\ UNCHANGED <<aggVars, live, sub, prod, closer, rcv, sent, closedCount,
                 last>>

\* ------------------------------------------------ adapters' reconnect loop

\* time.Second and 30*time.Second, in seconds
Second == 1
BackoffLimit == 30 * Second

\* if backoff < 30*time.Second { backoff *= 2 }
NextBackoff(backoff) ==
  IF backoff < BackoffLimit THEN backoff * 2 ELSE backoff

\* subscribeKline: the context is made, the goroutine is started with
\* backoff := time.Second, and the token is returned; n counts the sessions
\* started and wait is the delay the goroutine has slept last
ReconnectStart ==
  /\ fn = NoCall
  /\ fn' = [op |-> "reconnect", pc |-> "top", backoff |-> Second,
            cancelled |-> FALSE, n |-> 0, wait |-> 0]
  /\ UNCHANGED <<aggVars, live, sub, prod, closer, rcv, sent, closedCount,
                 last>>

\* token.Unsubscribe: t.cancel()
TokenCancel ==
  /\ fn.op = "reconnect"
  /\ ~fn.cancelled
  /\ fn' = [fn EXCEPT !.cancelled = TRUE]
  /\ UNCHANGED <<aggVars, live, sub, prod, closer, rcv, sent, closedCount,
                 last>>

\* top of the loop, ctx.Err() != nil: the goroutine returns
LoopExit ==
  /\ fn.op = "reconnect" /\ fn.pc = "top"
  /\ fn.cancelled
  /\ fn' = [fn EXCEPT !.pc = "exited"]
  /\ UNCHANGED <<aggVars, live, sub, prod, closer, rcv, sent, closedCount,
                 last>>

\* top of the loop, ctx.Err() == nil: connectAndRead is called
SessionStart ==
  /\ fn.op = "reconnect" /\ fn.pc = "top"
  /\ ~fn.cancelled
  /\ fn.n < MaxSessions
  /\ fn' = [fn EXCEPT !.pc = "session", !.n = @ + 1]
  /\ UNCHANGED <<aggVars, live, sub, prod, closer, rcv, sent, closedCount,
                 last>>

\* connectAndRead returns an error: with the context not cancelled the
\* goroutine goes to sleep, otherwise it takes the else branch
SessionFail ==
  /\ fn.op = "reconnect" /\ fn.pc = "session"
  /\ fn' = IF ~fn.cancelled THEN [fn EXCEPT !.pc = "sleep"]
           ELSE [fn EXCEPT !.pc = "top", !.backoff = Second]
  /\ UNCHANGED <<aggVars, live, sub, prod, closer, rcv, sent, closedCount,
                 last>>

\* connectAndRead returns nil: backoff = time.Second
SessionEnd ==
  /\ fn.op = "reconnect" /\ fn.pc = "session"
  /\ fn' = [fn EXCEPT !.pc = "top", !.backoff = Second]
  /\ UNCHANGED <<aggVars, live, sub, prod, closer, rcv, sent, closedCount,
                 last>>

\* the select: time.After(backoff) fires (it may also when the context is
\* cancelled by then, as select picks any ready case), then the backoff is
\* raised
SleepDone ==
  /\ fn.op = "reconnect" /\ fn.pc = "sleep"
  /\ fn' = [fn EXCEPT !.pc = "top", !.wait = fn.backoff,
                      !.backoff = NextBackoff(@)]
  /\ UNCHANGED <<aggVars, live, sub, prod, closer, rcv, sent, closedCount,
                 last>>

\* the select: ctx.Done() is ready, the goroutine returns
SleepCancelled ==
  /\ fn.op = "reconnect" /\ fn.pc = "sleep"
  /\ fn.cancelled
  /\ fn' = [fn EXCEPT !.pc = "exited"]
  /\ UNCHANGED <<aggVars, live, sub, prod, closer, rcv, sent, closedCount,
                 last>>

\* ------------------------------------------------------------ specification

\* the Subscribe calls of the callers cs on the keys ks, and their tokens
Subscribing(cs, ks) ==
  \/ \E c \in cs, k \in ks : SubscribeStart(c, k)
  \/ \E c \in cs : FeedSubscribeOk(c)
  \/ \E c \in cs : SetupStore(c)

\* the cancelling of the tokens Subscribe returned
Cancelling(cs) == \E c \in cs : Unsubscribe(c)

\* the second Unsubscribe calls on the tokens
CancellingAgain(cs) == \E c \in cs : UnsubscribeAgain(c)

\* the Subscribe calls that find the setup slot taken
Joining(cs) == \E c \in cs : CheckSetup(c)

\* upstream failures and what follows from them
Failing(cs) ==
  \/ \E c \in cs : FeedSubscribeFail(c)
  \/ \E c \in cs : SetupFail(c)
  \/ \E c \in cs : CheckFail(c)

\* Aggregator.Close
Closing(ks) ==
  \/ CloseStart
  \/ \E k \in ks : CloseLock(k)
  \/ \E k \in ks : CloseUnsubscribe(k)
  \/ \E k \in ks : CloseUnlock(k)
  \/ CloseEnd

\* no goroutine is inside handleCandle for the key k
Quiet(k) == \A e \in Exchanges : prod[k][e] = IdleProd

\* the adapters' goroutines delivering the periods ts, their handleCandle
\* invocations overlapping
Producing(ks, ts) ==
  \/ \E k \in ks, e \in Exchanges : \E c \in Inputs(e, ts) : HandleCandle(k, e, c)
  \/ \E k \in ks, e \in Exchanges : Dispatch(k, e)

\* the same, each handleCandle invocation returning before the next starts
ProducingInTurn(ks, ts) ==
  \/ \E k \in ks, e \in Exchanges : \E c \in Inputs(e, ts) :
       Quiet(k) /\ HandleCandle(k, e, c)
  \/ \E k \in ks, e \in Exchanges : Dispatch(k, e)

\* the same, the exchanges reporting once Subscribe has stored the tokens
ProducingSetUp(ks, ts) ==
  \/ \E k \in ks, e \in Exchanges : \E c \in Inputs(e, ts) :
       Quiet(k) /\ tokens[k] # <<>> /\ HandleCandle(k, e, c)
  \/ \E k \in ks, e \in Exchanges : Dispatch(k, e)

\* the same, only the exchanges es reporting, and only updates of periods
\* that are still open
ProducingOpen(ks, es, ts) ==
  \/ \E k \in ks, e \in es : \E c \in Inputs(e, ts) :
       Quiet(k) /\ ~c.isClosed /\ HandleCandle(k, e, c)
  \/ \E k \in ks, e \in es : Dispatch(k, e)

\* the handlers that cancel their own tokens while they are called
CancellingInHandler(ks, es) == \E k \in ks, e \in es : DispatchCancelling(k, e)

\* the life cycle of the aggregator on one key, with two downstream
\* subscribers, upstream failures and Close, the exchanges reporting updates
\* of open periods
Next ==
  \/ Subscribing({1, 2}, {"k1"})
  \/ Joining({1, 2})
  \/ Cancelling({1, 2})
  \/ Failing({1, 2})
  \/ Closing({"k1"})
  \/ ProducingOpen({"k1"}, Exchanges, 1..MaxLifeT)

Spec == Init /\ [][Next]_vars

\* one downstream subscriber whose upstream setup succeeds, and then the
\* exchanges streaming the periods 1..MaxT into handleCandle, one invocation
\* at a time
NextFlow ==
  \/ Subscribing({1}, {"k1"})
  \/ ProducingSetUp({"k1"}, Times)

SpecFlow == Init /\ [][NextFlow]_vars

\* one downstream subscriber, and the goroutines of the exchanges running
\* handleCandle concurrently on the periods 1..MaxRaceT
NextRace ==
  \/ Subscribing({1}, {"k1"})
  \/ Cancelling({1})
  \/ Producing({"k1"}, 1..MaxRaceT)

SpecRace == Init /\ [][NextRace]_vars

\* two downstream subscribers of one key and one of another key, the
\* upstream setups succeeding and exchange B silent
NextKeys ==
  \/ Subscribing({1, 2}, {"k1"})
  \/ Subscribing({3}, {"k2"})
  \/ Joining({2})
  \/ Cancelling(Callers)
  \/ CancellingAgain(Callers)
  \/ ProducingOpen(Keys, {"A"}, 1..MaxLifeT)

SpecKeys == Init /\ [][NextKeys]_vars

\* Aggregator.Backfill
Backfilling ==
  \/ BackfillStart
  \/ BackfillFeedOk
  \/ BackfillFeedFail
  \/ BackfillReturn

\* one Backfill call, next to a Subscribe call that sets a key up
NextBackfill ==
  \/ Subscribing({1}, {"k1"})
  \/ Backfilling

SpecBackfill == Init /\ [][NextBackfill]_vars

\* merge evaluated on the perExchange maps of one period
NextMerge ==
  \/ MergeCall
  \/ MergeAgain

SpecMerge == Init /\ [][NextMerge]_vars

\* three Subscribe calls on one key, with upstream failures: a setup that
\* fails, the retry, and the calls that join one or the other
NextRetry ==
  \/ Subscribing(Callers, {"k1"})
  \/ Joining(Callers)
  \/ Failing(Callers)

SpecRetry == Init /\ [][NextRetry]_vars

\* Subscribe calls on any symbols and intervals, up to the symState each
\* one resolves to
NextResolve ==
  \E symbol \in Symbols, interval \in Intervals : ResolveKey(symbol, interval)

SpecResolve == Init /\ [][NextResolve]_vars

\* one upstream subscription of an adapter: its goroutine, the sessions
\* failing or ending, and the token cancelled at any time
NextReconnect ==
  \/ ReconnectStart
  \/ TokenCancel
  \/ LoopExit
  \/ SessionStart
  \/ SessionFail
  \/ SessionEnd
  \/ SleepDone
  \/ SleepCancelled

SpecReconnect == Init /\ [][NextReconnect]_vars

\* a subscriber on each of two keys, the tokens cancelled, exchange A
\* reporting, and Close ranging over both symStates
NextLocks ==
  \/ Subscribing({1}, {"k1"})
  \/ Subscribing({2}, {"k2"})
  \/ Cancelling({1, 2})
  \/ Closing(Keys)
  \/ ProducingOpen(Keys, {"A"}, 1..MaxLifeT)

SpecLocks == Init /\ [][NextLocks]_vars

\* two downstream subscribers of one key, their tokens cancelled by the
\* callers or by the handlers from inside a call, the exchanges reporting
\* updates of the periods 1..MaxFanT
NextFanOut ==
  \/ Subscribing({1, 2}, {"k1"})
  \/ Joining({2})
  \/ Cancelling({1, 2})
  \/ CancellingInHandler({"k1"}, Exchanges)
  \/ ProducingOpen({"k1"}, Exchanges, 1..MaxFanT)

SpecFanOut == Init /\ [][NextFanOut]_vars

\* ------------------------------------------------------------------- claims

\* C1: for any key, the openTimes of the candles in the history
\* (symState.candles) are strictly increasing from the first to the last entry
HistoryIncreasing ==
  \A k \in Keys : \A i, j \in 1..Len(candles[k]) :
    i < j => candles[k][i].openTime < candles[k][j].openTime

\* C2: a handler never receives an isClosed candle of a period after it has
\* received an isClosed candle of a later period
ClosedInOrder ==
  (last.op = "dispatch" /\ last.closed) => ~last.closedBack

\* C3: for every key and period at most one isClosed candle is ever appended
\* to the history, that is, put into a to-publish list as isClosed
FinalizedOnce ==
  \A k \in Keys : \A t \in Times : closedCount[k][t] <= 1

\* a closed candle arrives for a period that was force-closed before, and is
\* dropped
FinalizedOnceWitness ==
  /\ last.op = "handle"
  /\ last.late
  /\ sent[last.k][last.e].closed
  /\ closedCount[last.k][last.t] = 1
  /\ \E i \in 1..Len(candles[last.k]) : candles[last.k][i].openTime = last.t

\* C4: once a pending period t has been force-closed by a candle of a later
\* period t2, every handler snapshotted then receives the isClosed candle of
\* t before it receives any candle of the period t2
ForceCloseFirst ==
  last.op = "dispatch" => ~last.missing

\* the step is a handleCandle invocation of exchange e on key k
IsHandleStep(k, e) == sent'[k][e] # sent[k][e]

\* C5: a handleCandle call whose candle's openTime is in finalized leaves
\* history, pending and finalized unchanged and invokes no handler
LateDropFrame ==
  [][\A k \in Keys, e \in Exchanges :
       (IsHandleStep(k, e) /\ sent'[k][e].t \in finalized[k])
         => UNCHANGED <<candles, pending, finalized, prod, rcv>>]_vars

\* a delayed closed candle of B for a period that A's next period has
\* force-closed is dropped; the history holds the period with A's volume
LateDropWitness ==
  /\ last.op = "handle"
  /\ last.late
  /\ last.e = "B"
  /\ sent[last.k]["B"].closed
  /\ \E i \in 1..Len(candles[last.k]) :
       /\ candles[last.k][i].openTime = last.t
       /\ candles[last.k][i].volume = "2"

\* C6: a handler never receives a candle of a period after it has received
\* a candle of a later period
DispatchInOrder ==
  last.op = "dispatch" => ~last.back

\* the isClosed candle of period t is still to be handed to the handler h by
\* a handleCandle invocation that is under way
StillToCome(k, h, t) ==
  \E e \in Exchanges :
    LET p == prod[k][e]
    IN /\ h \in p.hs
       /\ \E i \in 1..Len(p.toPublish) :
            /\ p.toPublish[i].openTime = t
            /\ p.toPublish[i].isClosed
            /\ i = 1 => h \in p.left

\* C7: every period that enters finalized is handed with isClosed to every
\* handler of the snapshot of that invocation: it has been received, or the
\* invocation is still in its loop and the call is yet to come
FinalizedDelivered ==
  \A k \in Keys, h \in Ids :
    \A t \in rcv[k][h].owedFin :
      t \in rcv[k][h].gotClosed \/ StillToCome(k, h, t)

\* all invocations have returned, and a handler has received the isClosed
\* candle of a force-closed period and of a naturally finalized one
FinalizedDeliveredWitness ==
  /\ Quiet("k1")
  /\ \E h \in Ids :
       /\ rcv["k1"][h].owedForce # {}
       /\ rcv["k1"][h].owedFin \ {f[1] : f \in rcv["k1"][h].owedForce} # {}
       /\ rcv["k1"][h].owedFin \subseteq rcv["k1"][h].gotClosed

\* the step is a call of aggregatorToken.Unsubscribe
IsCancelStep == \E c \in Callers : sub'[c].calls # sub[c].calls

\* C8: cancelling a token removes the handler of that token only: the other
\* handlers of the key stay registered, the invocations under way keep their
\* snapshots and the calls they still owe, and the state of every other key
\* is unchanged
HandlerIsolation ==
  [][IsCancelStep =>
       \E c \in Callers :
         /\ sub[c].pc = "ok"
         /\ sub'[c].calls # sub[c].calls
         /\ handlers' = [handlers EXCEPT ![sub[c].key] = @ \ {sub[c].id}]
         /\ UNCHANGED <<prod, rcv, pending, finalized, candles, tokens, live,
                        setup, setupErr>>]_vars

\* the first subscriber of k1 has cancelled; the second one is still
\* registered and has received a candle the first has not; the subscriber of
\* k2 is registered and k2 has a pending period
HandlerIsolationWitness ==
  /\ sub[1].pc = "ok" /\ sub[1].key = "k1" /\ sub[1].id \notin handlers["k1"]
  /\ sub[2].pc = "ok" /\ sub[2].key = "k1" /\ sub[2].id \in handlers["k1"]
  /\ rcv["k1"][sub[2].id].maxT > rcv["k1"][sub[1].id].maxT
  /\ sub[3].pc = "ok" /\ sub[3].key = "k2" /\ sub[3].id \in handlers["k2"]
  /\ DOMAIN pending["k2"] # {}

\* C9: when an upstream Subscribe has failed, the Subscribe call returns an
\* error, and when it does every upstream token it had obtained is cancelled,
\* no upstream token is stored, its handler is not registered, setupErr is
\* the error and setup is false again
SetupFailureCleanup ==
  [][\A c \in Callers :
       /\ sub[c].pc = "failed" => sub'[c].pc \in {"failed", "err"}
       /\ (sub[c].pc = "failed" /\ sub'[c].pc = "err") =>
            LET k == sub[c].key
            IN /\ Range(sub[c].toks) \cap live'[k] = {}
               /\ tokens'[k] = <<>>
               /\ sub[c].id \notin handlers'[k]
               /\ sub[c].err # Nil
               /\ setupErr'[k] = sub[c].err
               /\ ~setup'[k]]_vars

\* a Subscribe call has failed at the second adapter, after the first one
\* had given it a token
SetupFailureWitness ==
  \E c \in Callers :
    /\ sub[c].pc = "err"
    /\ sub[c].toks = <<UpToken("A", c)>>
    /\ sub[c].err = ErrOf("B")
    /\ setupErr[sub[c].key] = ErrOf("B")
    /\ ~setup[sub[c].key]

\* C10: the Subscribe call that follows a failed setup of the key owns the
\* setup and starts it from the first adapter; when every adapter has given a
\* token it returns, the N tokens are stored in the adapters' order and
\* setupErr is cleared
RetryAfterFailure ==
  [][\A c \in Callers :
       LET k == sub'[c].key
       IN /\ (sub[c].pc = "idle" /\ sub'[c].pc # "idle"
                /\ ~setup[k] /\ setupErr[k] # Nil) =>
               (sub'[c].pc = "setup" /\ sub'[c].i = 1 /\ sub'[c].toks = <<>>)
          /\ (sub[c].pc = "setup" /\ sub'[c].toks # sub[c].toks) =>
               sub'[c].toks = Append(sub[c].toks,
                                UpToken(adapters[Len(sub[c].toks) + 1], c))
          /\ (sub[c].pc = "setup" /\ sub'[c].pc = "ok" /\ setupErr[k] # Nil) =>
               /\ tokens'[k] = [j \in 1..numEx |-> UpToken(adapters[j], c)]
               /\ setupErr'[k] = Nil]_vars

\* the first Subscribe call failed in setup, the second one has set the
\* key up
RetryWitness ==
  /\ sub[1].pc = "err" /\ sub[1].err \in {ErrOf("A"), ErrOf("B")}
  /\ sub[2].pc = "ok" /\ sub[2].key = sub[1].key
  /\ tokens[sub[2].key] = <<UpToken("A", 2), UpToken("B", 2)>>
  /\ setupErr[sub[2].key] = Nil
  /\ sub[2].id \in handlers[sub[2].key]

\* C11: a Subscribe call that did not own the setup of its key has returned
\* a token only if the setup has finished and succeeded: the owner has
\* returned with a token from every adapter
NonOwnerWaits ==
  \A c \in Callers :
    (sub[c].pc = "ok" /\ sub[c].toks = <<>>) =>
      \E d \in Callers : /\ sub[d].key = sub[c].key
                         /\ sub[d].pc = "ok"
                         /\ Len(sub[d].toks) = numEx

\* C12: after Close has returned, no upstream token of a Subscribe call made
\* before the return is still subscribed, and none is stored in a symState
CloseCancelsAll ==
  closer.pc = "closed" =>
    \A k \in Keys :
      /\ \A tok \in live[k] : tok.by \notin closer.before
      /\ \A tok \in Range(tokens[k]) : tok.by \notin closer.before

\* C13: a second Unsubscribe on a token leaves the handler map as the first
\* call left it; in particular it removes no handler that another Subscribe
\* call registered, as every Subscribe call gets an id of its own
UnsubscribeIdempotent ==
  [][\A c \in Callers :
       (sub[c].calls >= 1 /\ sub'[c].calls > sub[c].calls) =>
         handlers' = handlers]_vars

\* the first subscriber of k1 has cancelled twice; the second subscriber,
\* under another id, is the one handler of k1
UnsubscribeTwiceWitness ==
  /\ sub[1].pc = "ok" /\ sub[1].key = "k1" /\ sub[1].calls = 2
  /\ sub[2].pc = "ok" /\ sub[2].key = "k1" /\ sub[2].calls = 0
  /\ sub[2].id # sub[1].id
  /\ handlers["k1"] = {sub[2].id}

\* C14: an Unsubscribe call on a downstream token, the token of the last
\* handler of a key included, leaves the upstream tokens, the setup flag and
\* error, pending, finalized and the history of every key unchanged; a stored
\* upstream token is cancelled by a step of Close only
CancelFrame ==
  [][/\ IsCancelStep =>
          UNCHANGED <<tokens, live, setup, setupErr, pending, finalized,
                      candles>>
     /\ \A k \in Keys :
          (\E tok \in Range(tokens[k]) : tok \in live[k] /\ tok \notin live'[k])
            => (Locked(k) /\ closer'.i = closer.i + 1)]_vars

\* the one subscriber of k1 has cancelled: no handler is left, the upstream
\* tokens are stored and subscribed, and a candle has come in after that
LastCancelWitness ==
  /\ \E c \in Callers : sub[c].pc = "ok" /\ sub[c].calls = 1
  /\ nextID["k1"] = 1
  /\ handlers["k1"] = {}
  /\ Len(tokens["k1"]) = numEx
  /\ Range(tokens["k1"]) \subseteq live["k1"]
  /\ setup["k1"]
  /\ closer.pc = "idle"
  /\ DOMAIN pending["k1"] # {}
  /\ Quiet("k1")
  /\ rcv["k1"][0].maxT = 0

\* the candles of all batches the adapters returned to the Backfill call
Fetched == UNION {Range(fn.got[i]) : i \in 1..Len(fn.got)}

\* the candles of the period t among them, by exchange
FetchedAt(t) ==
  [e \in {c.exchange : c \in {d \in Fetched : d.openTime = t}} |->
     CHOOSE c \in Fetched : c.exchange = e /\ c.openTime = t]

\* C15: when every adapter's Backfill has succeeded, Backfill returns one
\* candle for each openTime that occurs in a batch, in strictly increasing
\* order of openTime, each the merge of the candles of that openTime with
\* isClosed set
BackfillMergeLaw ==
  (fn.op = "backfill" /\ fn.pc = "done") =>
    /\ fn.err = Nil
    /\ {fn.out[j].openTime : j \in 1..Len(fn.out)} =
         {c.openTime : c \in Fetched}
    /\ \A i, j \in 1..Len(fn.out) :
         i < j => fn.out[i].openTime < fn.out[j].openTime
    /\ \A j \in 1..Len(fn.out) :
         \E ord \in Orders(DOMAIN FetchedAt(fn.out[j].openTime)) :
           fn.out[j] = [merge(FetchedAt(fn.out[j].openTime), ord)
                          EXCEPT !.isClosed = TRUE]

\* the adapters returned the periods {1, 2} and {1, 3}, the second batch
\* latest first: the result is 1, 2, 3, and 1 is merged from both
BackfillWitness ==
  /\ fn.op = "backfill" /\ fn.pc = "done"
  /\ [j \in 1..Len(fn.got[1]) |-> fn.got[1][j].openTime] = <<1, 2>>
  /\ [j \in 1..Len(fn.got[2]) |-> fn.got[2][j].openTime] = <<3, 1>>
  /\ [j \in 1..Len(fn.out) |-> fn.out[j].openTime] = <<1, 2, 3>>
  /\ [j \in 1..Len(fn.out) |-> fn.out[j].volume] = <<"8", "3", "5">>
  /\ fn.out[1].high = "12" /\ fn.out[1].low = "8"

\* C16: when an adapter's Backfill fails, Backfill returns an error that
\* wraps the adapter's error and no candle, and no step of Backfill changes
\* a symState
BackfillAllOrNothing ==
  [][fn' # fn =>
       /\ UNCHANGED <<aggVars, live, prod, rcv>>
       /\ fn'.op = "backfill"
       /\ fn'.pc = "failed" =>
            /\ fn.pc = "fetch"
            /\ fn'.out = <<>>
            /\ fn'.err.wraps = ErrOf(adapters[fn.i])
       /\ fn'.pc = "done" => fn'.err = Nil]_vars

\* the second adapter has failed after the first had returned candles,
\* while a symState with a handler exists
BackfillFailWitness ==
  /\ fn.op = "backfill" /\ fn.pc = "failed"
  /\ fn.i = 2 /\ Len(fn.got) = 1 /\ fn.got[1] # <<>>
  /\ fn.out = <<>> /\ fn.err = BackfillErr("B")
  /\ "k1" \in states /\ handlers["k1"] # {}

\* the isClosed candles the handleCandle step of exchange e appends to the
\* history of k: those of its to-publish list (a handler is registered)
Appended(k, e) ==
  IF prod'[k][e] = IdleProd THEN <<>>
  ELSE SelectSeq(prod'[k][e].toPublish, LAMBDA c : c.isClosed)

\* the last n entries of the sequence q
LastN(q, n) == SubSeq(q, Len(q) - n + 1, Len(q))

\* C17: the history never holds more than 2 * maxLimit candles; after a
\* handleCandle call it is the tail of the old history followed by the
\* appended candles, in their order; it is all of that when the length does
\* not exceed 2 * maxLimit, and when one append makes the length exceed
\* 2 * maxLimit it is exactly the last maxLimit candles
RingTrim ==
  [][\A k \in Keys :
       /\ Len(candles'[k]) <= 2 * maxLimit
       /\ \A e \in Exchanges :
            (IsHandleStep(k, e) /\ handlers[k] # {}) =>
              LET full == candles[k] \o Appended(k, e)
              IN /\ candles'[k] = LastN(full, Len(candles'[k]))
                 /\ Len(full) <= 2 * maxLimit => candles'[k] = full
                 /\ Len(full) > 2 * maxLimit => Len(candles'[k]) < Len(full)
                 /\ (Len(Appended(k, e)) = 1 /\ Len(full) > 2 * maxLimit) =>
                      candles'[k] = LastN(full, maxLimit)]_vars

\* 2 * maxLimit + 1 periods have been finalized and the history has been
\* trimmed to the last maxLimit of them
RingTrimWitness ==
  /\ Cardinality({t \in Times : closedCount["k1"][t] = 1}) = 2 * maxLimit + 1
  /\ Len(candles["k1"]) = maxLimit
  /\ \A t \in finalized["k1"] : t <= candles["k1"][Len(candles["k1"])].openTime

\* C18: two evaluations of merge on the same perExchange map give the same
\* high, low, volume, open and openTime, whatever the iteration orders
MergeDeterministic ==
  (fn.op = "merge" /\ fn.again) =>
    /\ fn.out.high = fn.out2.high
    /\ fn.out.low = fn.out2.low
    /\ fn.out.volume = fn.out2.volume
    /\ fn.out.open = fn.out2.open
    /\ fn.out.openTime = fn.out2.openTime

\* the string s parses as a number
Parses(s) == s \in DOMAIN NumTable

\* C19: when the high and low of every candle of the map parse, merge
\* returns exchange "aggregated", as high the string of a candle whose parsed
\* high is the greatest, and as low the string of a candle whose parsed low is
\* the least
MergeHighLow ==
  (/\ fn.op = "merge"
   /\ \A e \in DOMAIN fn.perEx :
        Parses(fn.perEx[e].high) /\ Parses(fn.perEx[e].low)) =>
    /\ fn.out.exchange = "aggregated"
    /\ \E e \in DOMAIN fn.perEx :
         /\ fn.out.high = fn.perEx[e].high
         /\ \A x \in DOMAIN fn.perEx :
              ParseFloat(fn.perEx[x].high) <= ParseFloat(fn.perEx[e].high)
    /\ \E e \in DOMAIN fn.perEx :
         /\ fn.out.low = fn.perEx[e].low
         /\ \A x \in DOMAIN fn.perEx :
              ParseFloat(fn.perEx[x].low) >= ParseFloat(fn.perEx[e].low)

\* the second candle iterated has the greater high, written "11", and the
\* lesser low; the first has its high written "10.0"
MergeHighLowWitness ==
  /\ fn.op = "merge"
  /\ DOMAIN fn.perEx = Exchanges
  /\ fn.perEx["A"].high = "10.0" /\ fn.perEx["B"].high = "11"
  /\ fn.perEx["A"].low = "9" /\ fn.perEx["B"].low = "8"
  /\ fn.out.close = "11"
  /\ fn.out.high = "11" /\ fn.out.low = "8"
  /\ fn.out.exchange = "aggregated"

\* the sum of the parsed volumes of the exchanges S that are not negative
RECURSIVE SumNonNegative(_, _)
SumNonNegative(perEx, S) ==
  IF S = {} THEN 0
  ELSE LET e == CHOOSE x \in S : TRUE
           v == ParseFloat(perEx[e].volume)
       IN (IF v >= 0 THEN v ELSE 0) + SumNonNegative(perEx, S \ {e})

\* C20: the volume merge returns is the sum of the parsed volumes that are
\* not negative, as a minimal decimal string
MergeVolume ==
  fn.op = "merge" =>
    fn.out.volume = FormatFloat(SumNonNegative(fn.perEx, DOMAIN fn.perEx))

\* the sum of the volumes of the exchanges S that parse
RECURSIVE SumParsed(_, _)
SumParsed(perEx, S) ==
  IF S = {} THEN 0
  ELSE LET e == CHOOSE x \in S : TRUE
       IN (IF Parses(perEx[e].volume) THEN ParseFloat(perEx[e].volume) ELSE 0)
            + SumParsed(perEx, S \ {e})

\* C21: merge returns a result for every map; when no volume of the map is
\* negative the volume is the sum of the volumes that parse, a candle whose
\* volume does not parse adding 0; and when the high (the low) of some
\* candle of the map parses, the merged high (low) is not a string that does
\* not parse
MergeParseTolerance ==
  fn.op = "merge" =>
    /\ fn.out.exchange = "aggregated"
    /\ (\A e \in DOMAIN fn.perEx : ParseFloat(fn.perEx[e].volume) >= 0) =>
         fn.out.volume = FormatFloat(SumParsed(fn.perEx, DOMAIN fn.perEx))
    /\ (\E e \in DOMAIN fn.perEx : Parses(fn.perEx[e].high)) =>
         Parses(fn.out.high)
    /\ (\E e \in DOMAIN fn.perEx : Parses(fn.perEx[e].low)) =>
         Parses(fn.out.low)

\* the step is a handleCandle invocation of exchange e on key k whose candle
\* is not dropped
IsAdmitStep(k, e) == IsHandleStep(k, e) /\ sent'[k][e].t \notin finalized[k]

\* the step is a handler call of the handleCandle invocation of e on k
IsDispatchStep(k, e) == prod[k][e] # IdleProd /\ prod'[k][e] # prod[k][e]

\* C22: the handler snapshot of a handleCandle invocation holds no handler
\* whose token's Unsubscribe has returned, and holds the handler of every
\* Subscribe call that has returned a token not cancelled so far; the
\* invocation then calls each handler of its snapshot with each candle of
\* its to-publish list, whatever is cancelled meanwhile
SnapshotAfterCancel ==
  [][\A k \in Keys, e \in Exchanges :
       /\ IsAdmitStep(k, e) =>
            \A c \in Callers :
              (sub[c].pc = "ok" /\ sub[c].key = k) =>
                /\ sub[c].calls >= 1 => sub[c].id \notin prod'[k][e].hs
                /\ sub[c].calls = 0 =>
                     /\ sub[c].id \in prod'[k][e].hs
                     /\ sub[c].id \in prod'[k][e].left
                     /\ prod'[k][e].toPublish # <<>>
       /\ IsDispatchStep(k, e) =>
            LET p == prod[k][e]
                q == prod'[k][e]
            IN \E h \in p.left :
                 /\ rcv'[k][h].maxT >= Head(p.toPublish).openTime
                 /\ \/ /\ q.left = p.left \ {h} /\ q.left # {}
                       /\ q.toPublish = p.toPublish /\ q.hs = p.hs
                    \/ /\ p.left = {h} /\ Tail(p.toPublish) = <<>>
                       /\ q = IdleProd
                    \/ /\ p.left = {h} /\ Tail(p.toPublish) # <<>>
                       /\ q.toPublish = Tail(p.toPublish)
                       /\ q.hs = p.hs /\ q.left = p.hs]_vars

\* the first subscriber of k1 has cancelled before any candle came in; an
\* invocation that started after that and force-closed a period has only
\* the second subscriber in its snapshot, who has received the closed candle
\* and is still to receive the candle of the new period
SnapshotAfterCancelWitness ==
  /\ sub[1].pc = "ok" /\ sub[1].key = "k1" /\ sub[1].calls = 1
  /\ sub[2].pc = "ok" /\ sub[2].key = "k1" /\ sub[2].calls = 0
  /\ prod["k1"]["A"].hs = {sub[2].id}
  /\ prod["k1"]["A"].left = {sub[2].id}
  /\ Len(prod["k1"]["A"].toPublish) = 1
  /\ rcv["k1"][sub[2].id].gotClosed = {1}
  /\ rcv["k1"][sub[1].id].maxT = 0

\* the step calls an upstream feed's Subscribe or an upstream token's
\* Unsubscribe
IsUpstreamStep ==
  \/ live' # live
  \/ \E c \in Callers : sub[c].pc = "setup" /\ sub'[c].pc = "failed"

\* the step is a call of a downstream handler
IsHandlerStep == \E k \in Keys, e \in Exchanges : IsDispatchStep(k, e)

\* the symState locks the thread that takes the step holds before it: those
\* of Close, or those of the handleCandle invocation that calls a handler;
\* every other thread holds a lock within one step only
HeldByActor ==
  IF closer' # closer THEN closer.held
  ELSE UNION {prod[x[1]][x[2]].held :
                x \in {y \in Keys \X Exchanges : IsDispatchStep(y[1], y[2])}}

\* C26: a step that calls a downstream handler, an upstream feed's Subscribe
\* or an upstream token's Unsubscribe is taken by a thread that holds no
\* symState lock
LockDiscipline ==
  [][(IsUpstreamStep \/ IsHandlerStep) => HeldByActor = {}]_vars

\* C27: no thread holds two symState locks at once, a symState lock is taken
\* by a thread that holds none, Aggregator.mu is taken by a thread that holds
\* no symState lock, and Close, while it holds Aggregator.mu, never waits for
\* a lock: it can always take its next step
LockOrder ==
  [][/\ Cardinality(closer'.held) <= 1
     /\ \A k \in Keys : (~Locked(k) /\ Locked(k)') => HeldByActor = {}
     /\ (~AggLocked /\ AggLocked') => HeldByActor = {}
     /\ states' # states => HeldByActor = {}
     /\ AggLocked' =>
          \/ closer'.at # ""
          \/ closer'.todo = {}
          \/ \E k \in closer'.todo : ~Locked(k)']_vars

\* Close has been through the symState of k1 and holds the lock of k2 only,
\* while a handleCandle invocation on k1 is calling the handlers
LockOrderWitness ==
  /\ closer.pc = "closing"
  /\ closer.todo = {"k2"}
  /\ closer.held = {"k2"}
  /\ tokens["k1"] = <<>> /\ tokens["k2"] # <<>>
  /\ prod["k1"]["A"] # IdleProd

\* the exchanges that have confirmed the close of the period of the candle
\* that exchange e hands in with this step, that candle included
ClosedByNow(k, e) ==
  LET t == sent'[k][e].t
  IN (IF t \in DOMAIN pending[k] THEN pending[k][t].closedBy ELSE {})
       \cup (IF sent'[k][e].closed THEN {e} ELSE {})

\* C23: a handleCandle invocation that admits a candle of period t finalizes
\* t exactly when every exchange has confirmed the close of t: then the
\* merge is appended to the history with isClosed, t leaves pending and
\* enters finalized; otherwise t stays pending with isClosed unset and
\* nothing of t is appended. A candle of the to-publish list has isClosed
\* only if it is of an earlier period than t, or of t with every exchange
\* having confirmed
NaturalFinalization ==
  [][\A k \in Keys, e \in Exchanges :
       (IsAdmitStep(k, e) /\ handlers[k] # {}) =>
         LET t == sent'[k][e].t
             all == ClosedByNow(k, e) = Exchanges
             out == prod'[k][e].toPublish
             agg == out[Len(out)]
             hist == candles'[k]
         IN /\ agg.openTime = t
            /\ agg.isClosed <=> all
            /\ t \in finalized'[k] <=> all
            /\ t \notin DOMAIN pending'[k] <=> all
            /\ all => hist # <<>> /\ hist[Len(hist)] = agg
            /\ ~all => /\ ~pending'[k][t].agg.isClosed
                       /\ pending'[k][t].closedBy = ClosedByNow(k, e)
                       /\ \A i \in 1..Len(hist) : hist[i].openTime # t
            /\ \A i \in 1..Len(out) :
                 out[i].isClosed =>
                   \/ out[i].openTime < t
                   \/ out[i].openTime = t /\ all]_vars

\* both exchanges have confirmed the close of period 1 and neither has
\* reported a later period: period 1 is finalized with the merged candle in
\* the history, and nothing is pending
NaturalFinalizationWitness ==
  /\ \A e \in Exchanges : sent["k1"][e] = [t |-> 1, closed |-> TRUE]
  /\ finalized["k1"] = {1}
  /\ DOMAIN pending["k1"] = {}
  /\ Len(candles["k1"]) = 1
  /\ candles["k1"][1].isClosed
  /\ candles["k1"][1].volume = "8"
  /\ candles["k1"][1].high = "12" /\ candles["k1"][1].low = "8"
  /\ last.op = "dispatch" /\ last.closed

\* after the step of exchange e the period t of key k, pending before it,
\* is not pending and is in finalized, and the merge of its per-exchange
\* candles, with isClosed, has been appended to the history: it is in the
\* history, unless the step has appended more than the ring keeps
ForceClosedNow(k, e, t) ==
  /\ t \notin DOMAIN pending'[k]
  /\ t \in finalized'[k]
  /\ \E ord \in Orders(DOMAIN pending[k][t].perExchange) :
       LET m == [merge(pending[k][t].perExchange, ord) EXCEPT !.isClosed = TRUE]
       IN /\ \E i \in 1..Len(Appended(k, e)) : Appended(k, e)[i] = m
          /\ \/ \E i \in 1..Len(candles'[k]) : candles'[k][i] = m
             \/ Len(Appended(k, e)) > maxLimit

DispatchCount ==
  [][\A k \in Keys, e \in Exchanges :
       /\ (IsAdmitStep(k, e) /\ handlers[k] # {}) =>
            LET t == sent'[k][e].t
                q == prod'[k][e]
                out == q.toPublish
                stale == {u \in DOMAIN pending[k] : u < t}
            IN /\ Len(out) = Cardinality(stale) + 1
               /\ out[Len(out)].openTime = t
               /\ \A i \in 1..(Len(out) - 1) :
                    out[i].isClosed /\ out[i].openTime \in stale
               /\ \A i, j \in 1..(Len(out) - 1) :
                    i # j => out[i].openTime # out[j].openTime
               /\ q.len = Len(out) /\ q.n = 0
               /\ q.hs = handlers[k] /\ q.left = q.hs
       /\ IsDispatchStep(k, e) =>
            LET p == prod[k][e]
                q == prod'[k][e]
                m == Cardinality(p.hs)
            IN /\ p.n = (p.len - Len(p.toPublish)) * m
                          + (m - Cardinality(p.left))
               /\ \E h \in p.left :
                    /\ rcv' = [rcv EXCEPT ![k][h] = rcv'[k][h]]
                    /\ rcv'[k][h].maxT >= Head(p.toPublish).openTime
                    /\ Head(p.toPublish).isClosed =>
                         Head(p.toPublish).openTime \in rcv'[k][h].gotClosed
               /\ q # IdleProd =>
                    /\ q.n = p.n + 1 /\ q.len = p.len /\ q.hs = p.hs
                    /\ q.toPublish \in {p.toPublish, Tail(p.toPublish)}
               /\ q = IdleProd => p.n + 1 = p.len * m]_vars

\* an invocation has force-closed period 1 for a candle of period 2; it has
\* handed the closed candle of period 1 to the handler and is about to make
\* its second and last call, with the candle of period 2
DispatchCountWitness ==
  \E e \in Exchanges :
    LET p == prod["k1"][e]
    IN /\ p.len = 2 /\ p.n = 1
       /\ p.hs = {0} /\ p.left = {0}
       /\ Len(p.toPublish) = 1
       /\ p.toPublish[1].openTime = 2
       /\ rcv["k1"][0].gotClosed = {1}
       /\ finalized["k1"] = {1}

\* C28: a handler is called by a thread that holds no symState lock, so
\* that the Unsubscribe it calls on its own token from inside the call can
\* take state.mu; that Unsubscribe removes its own handler only and leaves
\* the fan-out under way as it is (the snapshot, the candles and the
\* handlers still to be called); and the snapshot of every handleCandle
\* invocation that starts after the cancel does not hold the handler
ReentrantCancel ==
  [][\A k \in Keys, e \in Exchanges :
       /\ IsDispatchStep(k, e) => prod[k][e].held = {}
       /\ (IsDispatchStep(k, e) /\ IsCancelStep) =>
            LET p == prod[k][e]
                q == prod'[k][e]
            IN \E c \in Callers :
                 /\ sub[c].key = k
                 /\ sub[c].calls = 0 /\ sub'[c].calls = 1
                 /\ sub[c].id \in p.left
                 /\ handlers' = [handlers EXCEPT ![k] = @ \ {sub[c].id}]
                 /\ \/ /\ q.left = p.left \ {sub[c].id} /\ q.left # {}
                       /\ q.toPublish = p.toPublish /\ q.hs = p.hs
                    \/ /\ p.left = {sub[c].id} /\ Tail(p.toPublish) = <<>>
                       /\ q = IdleProd
                    \/ /\ p.left = {sub[c].id} /\ Tail(p.toPublish) # <<>>
                       /\ q.toPublish = Tail(p.toPublish)
                       /\ q.hs = p.hs /\ q.left = p.hs
                 /\ \A x \in Exchanges \ {e} : prod'[k][x] = prod[k][x]
                 /\ UNCHANGED <<pending, finalized, candles, tokens, live>>
       /\ IsAdmitStep(k, e) =>
            \A c \in Callers :
              (sub[c].pc = "ok" /\ sub[c].key = k /\ sub[c].calls >= 1) =>
                sub[c].id \notin prod'[k][e].hs]_vars

\* the handler of the first subscriber has cancelled its token inside the
\* call that handed it the closed candle of period 1; the invocation goes on:
\* the second subscriber, the one handler registered now, is still to be
\* called with that candle, and both are in the snapshot for the candle of
\* period 2
ReentrantCancelWitness ==
  \E e \in Exchanges :
    LET p == prod["k1"][e]
    IN /\ last.op = "dispatch" /\ last.cancels /\ last.closed
       /\ sub[1].pc = "ok" /\ sub[1].calls = 1
       /\ sub[2].pc = "ok" /\ sub[2].calls = 0
       /\ p.hs = {sub[1].id, sub[2].id}
       /\ p.left = {sub[2].id}
       /\ p.len = 2 /\ Len(p.toPublish) = 2
       /\ handlers["k1"] = {sub[2].id}

\* the callers that own the initialization of key k: they have claimed the
\* setup slot and not yet recorded the outcome
Owners(k) ==
  {c \in Callers : sub[c].key = k /\ sub[c].pc \in {"setup", "failed"}}

\* the step is a call of an exchange feed's Subscribe by the caller c
IsFeedStep(c) ==
  /\ sub[c].pc = "setup"
  /\ sub'[c].i # sub[c].i \/ sub'[c].pc = "failed"

\* C29: at any time at most one caller owns the initialization of a key; a
\* feed's Subscribe is called by the owner only, while the setup flag is
\* set and no token is stored, and for a feed the owner has not subscribed
\* in this attempt; so the subscribed upstream tokens of a key are all of
\* one attempt, at most one for each feed
SingleOwner ==
  [][\A k \in Keys :
       /\ Cardinality(Owners(k)') <= 1
       /\ \A c \in Callers :
            (IsFeedStep(c) /\ sub[c].key = k) =>
              /\ Owners(k) = {c}
              /\ setup[k] /\ tokens[k] = <<>>
              /\ \A tok \in Range(sub[c].toks) : tok.ex # adapters[sub[c].i]
              /\ live[k] \subseteq Range(sub[c].toks)
       /\ \A t1, t2 \in live'[k] :
            /\ t1.by = t2.by
            /\ t1.ex = t2.ex => t1 = t2]_vars

\* the first caller owns the setup and has subscribed the first feed; the
\* second caller has registered its handler meanwhile and subscribes
\* nothing
SingleOwnerWitness ==
  /\ sub[1].pc = "setup" /\ sub[1].key = "k1" /\ sub[1].i = 2
  /\ sub[2].pc \in {"check", "ok"} /\ sub[2].key = "k1"
  /\ sub[2].toks = <<>>
  /\ handlers["k1"] = {sub[1].id, sub[2].id}
  /\ live["k1"] = {UpToken("A", 1)}

\* the Subscribe call of c owns or has owned the initialization of its key,
\* has not failed, and its token has not been cancelled
IsOwnerSubscribed(c) ==
  \/ sub[c].pc = "setup"
  \/ sub[c].pc = "ok" /\ Len(sub[c].toks) = numEx /\ sub[c].calls = 0

\* C30: the handler of the Subscribe call that owns the initialization is
\* in the handler map whenever that call subscribes an upstream feed, the
\* first one included; and every handleCandle invocation that admits a
\* candle while the setup is under way, or after it while the owner's token
\* is not cancelled, has that handler in its snapshot, to be called with the
\* candle of the incoming period
EarlyCandles ==
  [][\A c \in Callers :
       /\ IsFeedStep(c) => sub[c].id \in handlers[sub[c].key]
       /\ \A e \in Exchanges :
            (IsOwnerSubscribed(c) /\ IsAdmitStep(sub[c].key, e)) =>
              LET q == prod'[sub[c].key][e]
              IN /\ sub[c].id \in q.hs
                 /\ sub[c].id \in q.left
                 /\ q.toPublish # <<>>
                 /\ q.toPublish[Len(q.toPublish)].openTime
                      = sent'[sub[c].key][e].t]_vars

\* the owner is still inside startExchangeSubs, with the first feed
\* subscribed and the second not yet, and its handler has received the
\* candle the first feed has delivered
EarlyCandlesWitness ==
  /\ sub[1].pc = "setup" /\ sub[1].key = "k1" /\ sub[1].i = 2
  /\ tokens["k1"] = <<>>
  /\ sent["k1"]["A"].t = 1
  /\ rcv["k1"][sub[1].id].maxT = 1
  /\ Quiet("k1")

\* C31: for every pending period, the exchanges in closedBy are among the
\* exchanges that have a candle in perExchange
ClosedBySubset ==
  \A k \in Keys : \A t \in DOMAIN pending[k] :
    pending[k][t].closedBy \subseteq DOMAIN pending[k][t].perExchange

\* a pending period for which both exchanges have reported and only A has
\* confirmed the close
ClosedBySubsetWitness ==
  \E t \in DOMAIN pending["k1"] :
    /\ pending["k1"][t].closedBy = {"A"}
    /\ DOMAIN pending["k1"][t].perExchange = {"A", "B"}
    /\ ~pending["k1"][t].perExchange["B"].isClosed

\* C32: for every key, no openTime is both a key of pending and a member of
\* finalized
PendingFinalizedDisjoint ==
  \A k \in Keys : (DOMAIN pending[k]) \cap finalized[k] = {}

\* a candle of a finalized period has just been dropped while a later
\* period is pending: the dropped candle has created no pending entry
PendingFinalizedWitness ==
  /\ last.op = "handle"
  /\ last.late
  /\ last.t \in finalized[last.k]
  /\ last.t \notin DOMAIN pending[last.k]
  /\ \E t \in DOMAIN pending[last.k] : t > last.t

\* the pending periods of the key k whose close every exchange has confirmed
FullyClosed(k) ==
  {t \in DOMAIN pending[k] : Cardinality(pending[k][t].closedBy) = numEx}

\* C33: between the locked sections of handleCandle at most one pending
\* period of a key has a closedBy of size N; indeed none has, as the
\* invocation in which closedBy reaches N removes the period from pending
AtMostOneFullyClosed ==
  \A k \in Keys :
    /\ Cardinality(FullyClosed(k)) <= 1
    /\ FullyClosed(k) = {}

\* the second exchange has just confirmed the close of period 2: the period
\* is finalized, once, and no longer pending
AtMostOneFullyClosedWitness ==
  /\ last.op = "handle"
  /\ ~last.late
  /\ last.t = 2
  /\ \A e \in Exchanges : sent[last.k][e] = [t |-> 2, closed |-> TRUE]
  /\ 2 \in finalized[last.k]
  /\ 2 \notin DOMAIN pending[last.k]
  /\ closedCount[last.k][2] = 1

\* C34: between the locked sections of handleCandle, the agg of every
\* pending period is a result of merge on its perExchange map, with isClosed
\* false, and perExchange holds the latest candle of each exchange that is
\* still reporting the period; the candle of the incoming period that an
\* invocation hands to the handlers as an intra-period update is that agg
AggIsMerge ==
  \A k \in Keys :
    /\ \A t \in DOMAIN pending[k] :
         LET p == pending[k][t]
         IN /\ \E ord \in Orders(DOMAIN p.perExchange) :
                 p.agg = merge(p.perExchange, ord)
            /\ ~p.agg.isClosed
            /\ p.agg.openTime = t
            /\ \A e \in DOMAIN p.perExchange :
                 sent[k][e].t = t =>
                   /\ p.perExchange[e] \in Inputs(e, {t})
                   /\ p.perExchange[e].isClosed = sent[k][e].closed
    /\ \A e \in Exchanges :
         LET q == prod[k][e]
         IN q.toPublish # <<>> =>
              LET c == q.toPublish[Len(q.toPublish)]
              IN ~c.isClosed =>
                   /\ c.openTime \in DOMAIN pending[k]
                   /\ c = pending[k][c.openTime].agg

\* period 2 is pending with an open candle of B and the candle with which A
\* has confirmed the close after an open update; the invocation of A is about
\* to hand the merge of the two to the handler
AggIsMergeWitness ==
  /\ 2 \in DOMAIN pending["k1"]
  /\ DOMAIN pending["k1"][2].perExchange = Exchanges
  /\ pending["k1"][2].perExchange["A"].isClosed
  /\ ~pending["k1"][2].perExchange["B"].isClosed
  /\ pending["k1"][2].agg.high = "12"
  /\ pending["k1"][2].agg.low = "8"
  /\ prod["k1"]["A"].toPublish = <<pending["k1"][2].agg>>
  /\ prod["k1"]["A"].n = 0

\* C35: two Subscribe calls work on the same symState if and only if their
\* symbols are equal and their intervals are equal
OneStatePerPair ==
  fn.op = "resolve" =>
    \A i, j \in 1..Len(fn.got) :
      (fn.got[i].state = fn.got[j].state)
        <=> (/\ fn.got[i].symbol = fn.got[j].symbol
             /\ fn.got[i].interval = fn.got[j].interval)

\* the half of C35 that holds: calls with equal pairs share a symState, and
\* calls with different keys never do
OneStatePerKey ==
  fn.op = "resolve" =>
    \A i, j \in 1..Len(fn.got) :
      /\ (fn.got[i].symbol = fn.got[j].symbol
            /\ fn.got[i].interval = fn.got[j].interval)
           => fn.got[i].state = fn.got[j].state
      /\ (fn.got[i].state = fn.got[j].state) <=> (fn.got[i].key = fn.got[j].key)
      /\ (i < j /\ fn.got[i].key = fn.got[j].key) => ~fn.got[j].created

\* C36: the handler of a Subscribe call that has returned an error has
\* received no candle, and no handleCandle invocation under way is still to
\* call it
FailedHandlerNeverCalled ==
  \A c \in Callers :
    sub[c].pc = "err" =>
      /\ rcv[sub[c].key][sub[c].id].maxT = 0
      /\ \A e \in Exchanges : sub[c].id \notin prod[sub[c].key][e].left

\* the Subscribe call whose setup attempt the call c has joined: the last
\* call before c that claimed the setup slot of c's key
JoinedOwner(c) ==
  CHOOSE d \in Callers :
    /\ d < c /\ sub[d].owner /\ sub[d].key = sub[c].key
    /\ \A d2 \in Callers :
         (d2 < c /\ sub[d2].owner /\ sub[d2].key = sub[c].key) => d2 <= d

\* C37: a Subscribe call that does not own the setup fails only with the
\* error of the setup attempt it has joined: when it fails, that attempt has
\* failed with the error the call returns; in particular the attempt has not
\* succeeded
JoinerFailsWithItsAttempt ==
  \A c \in Callers :
    (sub[c].pc \in {"remove", "err"} /\ ~sub[c].owner) =>
      /\ sub[JoinedOwner(c)].pc = "err"
      /\ sub[JoinedOwner(c)].err = sub[c].err

\* the exchanges with an upstream subscription of the key k that is not
\* cancelled
FeedsOf(lv) == {tok.ex : tok \in lv}

\* C38: when a Subscribe call returns a token, its key has an upstream
\* subscription that is not cancelled at every exchange, or a Subscribe call
\* is inside startExchangeSubs for the key
SubscribedMeansFed ==
  [][\A c \in Callers :
       (sub[c].pc # "ok" /\ sub'[c].pc = "ok") =>
         \/ FeedsOf(live'[sub[c].key]) = Exchanges
         \/ \E d \in Callers : /\ sub'[d].pc = "setup"
                               /\ sub'[d].key = sub[c].key]_vars

\* C39: every candle in the history of a key is closed, carries the
\* exchange "aggregated", and is of a period in finalized
HistoryIsFinal ==
  \A k \in Keys : \A i \in 1..Len(candles[k]) :
    /\ candles[k][i].isClosed
    /\ candles[k][i].exchange = "aggregated"
    /\ candles[k][i].openTime \in finalized[k]

\* the history holds a force-closed period, made of the one open candle A
\* had reported, and after it a period both exchanges have confirmed
HistoryIsFinalWitness ==
  /\ Len(candles["k1"]) = 2
  /\ candles["k1"][1].volume = "2"
  /\ candles["k1"][2].volume = "8"
  /\ candles["k1"][1].openTime < candles["k1"][2].openTime
  /\ DOMAIN pending["k1"] = {}

\* C40: in an adapter's reconnect loop the backoff starts at 1 second,
\* doubles after each failed session, is 1 second again after a session that
\* ends without error, and neither the backoff nor a delay slept exceeds 30
\* seconds; once the token is cancelled the loop starts no further session
BackoffLaw ==
  [][fn'.op = "reconnect" =>
       /\ fn'.backoff <= 30 /\ fn'.wait <= 30
       /\ fn.op = "none" => fn'.backoff = 1
       /\ (fn.op = "reconnect" /\ fn.pc = "sleep" /\ fn'.pc = "top") =>
            (fn'.backoff = 2 * fn.backoff /\ fn'.wait = fn.backoff)
       /\ (fn.op = "reconnect" /\ fn.pc = "session" /\ fn'.pc = "top") =>
            fn'.backoff = 1
       /\ (fn.op = "reconnect" /\ fn.cancelled) => fn'.n = fn.n]_vars

\* what holds of the loop: the backoff is 1 second at the start and after a
\* session that ends without error, a failed session is followed by a sleep
\* of the current backoff, after which the backoff is doubled unless it has
\* reached 30 seconds, and a cancelled loop starts no session and exits
BackoffAsCoded ==
  [][fn'.op = "reconnect" =>
       /\ fn'.backoff \in {1, 2, 4, 8, 16, 32}
       /\ fn.op = "none" => fn'.backoff = 1
       /\ (fn.op = "reconnect" /\ fn.pc = "sleep" /\ fn'.pc = "top") =>
            /\ fn'.wait = fn.backoff
            /\ fn'.backoff = IF fn.backoff < 30 THEN 2 * fn.backoff
                             ELSE fn.backoff
       /\ (fn.op = "reconnect" /\ fn.pc = "session" /\ fn'.pc = "top") =>
            fn'.backoff = 1
       /\ (fn.op = "reconnect" /\ fn.cancelled) =>
            (fn'.n = fn.n /\ fn'.pc \in {fn.pc, "top", "exited"})]_vars

====
